---- MODULE Spec2Model ----
(***************************************************************************)
(* Elementary transform sequences (roboticstoolbox/robot/ETS.py).          *)
(*                                                                         *)
(* Numbers.  Homogeneous transforms are 4x4 integer matrices.  An angle   *)
(* in radians is held as a whole number of quarter turns (1 stands for    *)
(* pi/2), so every rotation matrix is exact; an angle in degrees is a     *)
(* multiple of 90.  Lengths are integers.                                  *)
(*                                                                         *)
(* Python values.  None is the empty tuple, a number v is <<v>>, a        *)
(* callable is <<"func", name>>, an ndarray(4,4) is a tuple of four rows, *)
(* an axis name is the tuple of its characters, and the str that __str__  *)
(* returns is a string.                                                    *)
(***************************************************************************)
EXTENDS Integers, Sequences, FiniteSets, TLC

VARIABLES ets, ret, heap, env

vars == <<ets, ret, heap, env>>

\* ----------------------------------------------------------------- bounds
MaxLen == 3
MaxQ == 1
MaxHeapLen == 2

\* ----------------------------------------------------------- Python values
None == <<>>
Num(v) == <<v>>
Func(name) == <<"func", name>>
IsNone(v) == Len(v) = 0
IsNdarray(v) == Len(v) = 4
Callable(v) == Len(v) = 2 /\ v[1] = "func"

\* ------------------------------------------------------------------ numpy
eye4 == << <<1, 0, 0, 0>>, <<0, 1, 0, 0>>, <<0, 0, 1, 0>>, <<0, 0, 0, 1>> >>

MatEntry(A, B, i, j) ==
    A[i][1] * B[1][j] + A[i][2] * B[2][j] + A[i][3] * B[3][j] + A[i][4] * B[4][j]

MatRow(A, B, i) ==
    <<MatEntry(A, B, i, 1), MatEntry(A, B, i, 2), MatEntry(A, B, i, 3), MatEntry(A, B, i, 4)>>

\* A @ B
MatMul(A, B) == <<MatRow(A, B, 1), MatRow(A, B, 2), MatRow(A, B, 3), MatRow(A, B, 4)>>

\* ------------------------------------------------------- spatialmath.base
Cos4(k) == <<1, 0, -1, 0>>[(k % 4) + 1]
Sin4(k) == <<0, 1, 0, -1>>[(k % 4) + 1]

trotx(k) ==
    << <<1, 0, 0, 0>>, <<0, Cos4(k), -Sin4(k), 0>>, <<0, Sin4(k), Cos4(k), 0>>, <<0, 0, 0, 1>> >>

troty(k) ==
    << <<Cos4(k), 0, Sin4(k), 0>>, <<0, 1, 0, 0>>, <<-Sin4(k), 0, Cos4(k), 0>>, <<0, 0, 0, 1>> >>

trotz(k) ==
    << <<Cos4(k), -Sin4(k), 0, 0>>, <<Sin4(k), Cos4(k), 0, 0>>, <<0, 0, 1, 0>>, <<0, 0, 0, 1>> >>

\* getunit(v, unit): degrees become radians (v * pi / 180, here v / 90 quarter
\* turns); a unit other than 'rad' and 'deg' makes it raise ValueError, which
\* init tests before it calls this
getunit(v, unit) == IF unit = "deg" THEN v \div 90 ELSE v

\* ------------------------------------------------- ETS.tx / ty / tz closures
tx_axis_func(eta) ==
    << <<1, 0, 0, eta>>, <<0, 1, 0, 0>>, <<0, 0, 1, 0>>, <<0, 0, 0, 1>> >>

ty_axis_func(eta) ==
    << <<1, 0, 0, 0>>, <<0, 1, 0, eta>>, <<0, 0, 1, 0>>, <<0, 0, 0, 1>> >>

tz_axis_func(eta) ==
    << <<1, 0, 0, 0>>, <<0, 1, 0, 0>>, <<0, 0, 1, eta>>, <<0, 0, 0, 1>> >>

\* calling the callable f with the number v
Apply(f, v) ==
    CASE f[2] = "trotx" -> trotx(v)
      [] f[2] = "troty" -> troty(v)
      [] f[2] = "trotz" -> trotz(v)
      [] f[2] = "tx" -> tx_axis_func(v)
      [] f[2] = "ty" -> ty_axis_func(v)
      [] f[2] = "tz" -> tz_axis_func(v)

\* ------------------------------------------------------ SuperETS.__init__
\* the namedtuple ETS3(eta, axis_func, axis, joint, T)
ETS3(eta, axis_func, axis, joint, Tm) ==
    [eta |-> eta, axis_func |-> axis_func, axis |-> axis, joint |-> joint, T |-> Tm]

\* init leaving the transform of a fixed element to be computed later (T = None)
init_lazy(axis_func, axis, eta, unit) ==
    IF IsNone(axis_func) /\ IsNone(axis) /\ IsNone(eta)
    THEN [status |-> "ok", data |-> <<>>]
    ELSE IF IsNdarray(axis_func)
    THEN [status |-> "ok", data |-> <<ETS3(eta, None, <<"C">>, FALSE, axis_func)>>]
    ELSE IF Callable(axis_func)
    THEN IF IsNone(eta)
         THEN IF unit # "rad"
              THEN [status |-> "ValueError", data |-> None]
              ELSE [status |-> "ok", data |-> <<ETS3(eta, axis_func, axis, TRUE, None)>>]
         ELSE IF unit \notin {"rad", "deg"}
         THEN [status |-> "ValueError", data |-> None]
         ELSE [status |-> "ok",
               data |-> <<ETS3(Num(getunit(eta[1], unit)), axis_func, axis, FALSE, None)>>]
    ELSE [status |-> "ValueError", data |-> None]

\* init accepting any unit for a joint
init_anyunit(axis_func, axis, eta, unit) ==
    IF IsNone(axis_func) /\ IsNone(axis) /\ IsNone(eta)
    THEN [status |-> "ok", data |-> <<>>]
    ELSE IF IsNdarray(axis_func)
    THEN [status |-> "ok", data |-> <<ETS3(eta, None, <<"C">>, FALSE, axis_func)>>]
    ELSE IF Callable(axis_func)
    THEN IF IsNone(eta)
         THEN [status |-> "ok", data |-> <<ETS3(eta, axis_func, axis, TRUE, None)>>]
         ELSE IF unit \notin {"rad", "deg"}
         THEN [status |-> "ValueError", data |-> None]
         ELSE LET eta1 == getunit(eta[1], unit)
              IN  [status |-> "ok",
                   data |-> <<ETS3(Num(eta1), axis_func, axis, FALSE, Apply(axis_func, eta1))>>]
    ELSE [status |-> "ValueError", data |-> None]

\* the constructor: the exception it raises ("ok" for none) and the new
\* instance's data
init(axis_func, axis, eta, unit) ==
    IF IsNone(axis_func) /\ IsNone(axis) /\ IsNone(eta)
    THEN [status |-> "ok", data |-> <<>>]
    ELSE IF IsNdarray(axis_func)
    THEN [status |-> "ok", data |-> <<ETS3(eta, None, <<"C">>, FALSE, axis_func)>>]
    ELSE IF Callable(axis_func)
    THEN IF IsNone(eta)
         THEN IF unit # "rad"
              THEN [status |-> "ValueError", data |-> None]
              ELSE [status |-> "ok", data |-> <<ETS3(eta, axis_func, axis, TRUE, None)>>]
         ELSE IF unit \notin {"rad", "deg"}
         THEN [status |-> "ValueError", data |-> None]
         ELSE LET eta1 == getunit(eta[1], unit)
              IN  [status |-> "ok",
                   data |-> <<ETS3(Num(eta1), axis_func, axis, FALSE, Apply(axis_func, eta1))>>]
    ELSE [status |-> "ValueError", data |-> None]

\* ---------------------------------------------------------- ETS factories
rx(eta, unit) == init(Func("trotx"), <<"R", "x">>, eta, unit)
ry(eta, unit) == init(Func("troty"), <<"R", "y">>, eta, unit)
rz(eta, unit) == init(Func("trotz"), <<"R", "z">>, eta, unit)
tx(eta) == init(Func("tx"), <<"t", "x">>, eta, "rad")
ty(eta) == init(Func("ty"), <<"t", "y">>, eta, "rad")
tz(eta) == init(Func("tz"), <<"t", "z">>, eta, "rad")
_CONST(Tm) == init(Tm, None, None, "rad")

\* ----------------------------------------------------- element properties
\* each reads data[0], the first element of the instance it is called on
axis_func(self) == self[1].axis_func
axis(self) == self[1].axis
isjoint(self) == self[1].joint
isrevolute(self) == axis(self)[1] = "R"
isprismatic(self) == axis(self)[1] = "t"
isconstant(self) == axis(self)[1] = "C"

\* self[i] for an index i (Python counts from 0, the model from 1)
getitem(self, i) == <<self[i]>>

\* mul with the operands exchanged (rest.data + self.data)
mul_swapped(self, rest) == rest \o self

\* prod.data = self.data + rest.data: the data of the instance returned by
\* self * rest and by self *= rest
mul(self, rest) == self \o rest
imul(self, rest) == self \o rest

\* the same on instances: h is the heap (instance -> data), self and rest
\* the operands, prod the instance ETS() has just made; gives the heap
\* after the call and the instance returned
mul_call(h, self, rest, prod) ==
    [heap |-> [h EXCEPT ![prod] = mul(h[self], h[rest])], result |-> prod]

\* imul_call extending self in place and returning it (self.data +=
\* rest.data; return self)
imul_inplace(h, self, rest, prod) ==
    [heap |-> [h EXCEPT ![self] = imul(h[self], h[rest])], result |-> self]

imul_call(h, self, rest, prod) ==
    [heap |-> [h EXCEPT ![prod] = imul(h[self], h[rest])], result |-> prod]

\* ---------------------------------------------------------- SuperETS.pop
\* the 1-based position list.pop(i) removes from a list of length len: a
\* negative i counts from the end
PopPos(len, i) == IF i < 0 THEN len + i + 1 ELSE i + 1

\* pop leaving the list as it was (item.data = [self.data[i]])
pop_noremove(self, i) ==
    IF PopPos(Len(self), i) < 1 \/ PopPos(Len(self), i) > Len(self)
    THEN [status |-> "IndexError", data |-> self, item |-> None]
    ELSE [status |-> "ok", data |-> self, item |-> <<self[PopPos(Len(self), i)]>>]

\* pop returning an empty sequence when there is nothing to remove
pop_noraise(self, i) ==
    IF PopPos(Len(self), i) < 1 \/ PopPos(Len(self), i) > Len(self)
    THEN [status |-> "ok", data |-> self, item |-> <<>>]
    ELSE LET k == PopPos(Len(self), i)
         IN  [status |-> "ok",
              data |-> SubSeq(self, 1, k - 1) \o SubSeq(self, k + 1, Len(self)),
              item |-> <<self[k]>>]

\* pop(i): item = ETS(); item.data = [super().pop(i)].  Gives the exception
\* raised ("ok" for none), self.data after the call and the data of the
\* instance returned; list.pop raises IndexError on an empty list and on
\* an index out of range
pop(self, i) ==
    IF PopPos(Len(self), i) < 1 \/ PopPos(Len(self), i) > Len(self)
    THEN [status |-> "IndexError", data |-> self, item |-> None]
    ELSE LET k == PopPos(Len(self), i)
         IN  [status |-> "ok",
              data |-> SubSeq(self, 1, k - 1) \o SubSeq(self, k + 1, Len(self)),
              item |-> <<self[k]>>]

\* ------------------------------------------------------------ SuperETS.n
\* the loop of n from element i on, count joints counted so far: the
\* statement run for a joint is et += 1, UserList.__iadd__ with an int,
\* which raises TypeError
RECURSIVE n_loop(_, _, _)
n_loop(self, i, count) ==
    IF i > Len(self)
    THEN [status |-> "ok", val |-> count]
    ELSE IF isjoint(getitem(self, i))
         THEN [status |-> "TypeError", val |-> None]
         ELSE n_loop(self, i + 1, count)

n(self) == n_loop(self, 1, 0)

\* ------------------------------------------------------- SuperETS.joints
\* np.where([e.isjoint for e in self])[0]: the 0-based indices of the joints
joints(self) ==
    SelectSeq([i \in 1..Len(self) |-> i - 1], LAMBDA k : isjoint(getitem(self, k + 1)))

\* ------------------------------------------------------- SuperETS.config
\* one character per joint; every character is decided by self.isrevolute,
\* which is read on the sequence itself
config(self) == [k \in 1..Len(joints(self)) |-> IF isrevolute(self) THEN "R" ELSE "P"]

\* ------------------------------------------------------------ SuperETS.T
T(self, q) == IF isjoint(self) THEN Apply(axis_func(self), q) ELSE self[1].T

\* --------------------------------------------------------- SuperETS.eval
\* the caller's joint vector: None, a list, or an ndarray
QNone == [kind |-> "None", v |-> <<>>]
QList(v) == [kind |-> "list", v |-> v]
QArray(v) == [kind |-> "ndarray", v |-> v]

\* eval_loop taking each joint's value from the end of q (q.pop() for q.pop(0))
RECURSIVE eval_loop_poplast(_, _, _, _, _, _)
eval_loop_poplast(self, i, Tm, isnone, ql, unit) ==
    IF i > Len(self)
    THEN [status |-> "ok", val |-> Tm, ql |-> ql]
    ELSE LET et == getitem(self, i)
         IN  IF isjoint(et)
             THEN IF isnone
                  THEN [status |-> "AttributeError", val |-> None, ql |-> ql]
                  ELSE IF Len(ql) = 0
                  THEN [status |-> "IndexError", val |-> None, ql |-> ql]
                  ELSE LET qj == IF isrevolute(et) /\ unit = "deg"
                                 THEN ql[Len(ql)] \div 90
                                 ELSE ql[Len(ql)]
                       IN  eval_loop_poplast(self, i + 1, MatMul(Tm, T(et, qj)), isnone,
                                             SubSeq(ql, 1, Len(ql) - 1), unit)
             ELSE eval_loop_poplast(self, i + 1, MatMul(Tm, T(et, None)), isnone, ql, unit)

\* the loop of eval from element i on; Tm is the running product, isnone
\* says q is None, ql is the list q otherwise
RECURSIVE eval_loop(_, _, _, _, _, _)
eval_loop(self, i, Tm, isnone, ql, unit) ==
    IF i > Len(self)
    THEN [status |-> "ok", val |-> Tm, ql |-> ql]
    ELSE LET et == getitem(self, i)
         IN  IF isjoint(et)
             THEN IF isnone
                  THEN [status |-> "AttributeError", val |-> None, ql |-> ql]
                  ELSE IF Len(ql) = 0
                  THEN [status |-> "IndexError", val |-> None, ql |-> ql]
                  ELSE LET qj == IF isrevolute(et) /\ unit = "deg"
                                 THEN Head(ql) \div 90
                                 ELSE Head(ql)
                       IN  eval_loop(self, i + 1, MatMul(Tm, T(et, qj)), isnone, Tail(ql), unit)
             ELSE eval_loop(self, i + 1, MatMul(Tm, T(et, None)), isnone, ql, unit)

\* eval(q, unit): the exception raised ("ok" for none), the matrix of the
\* pose returned and the caller's vector after the call.  getvector(q,
\* out='sequence') hands back a list argument itself, so q.pop(0) consumes
\* the caller's list; an ndarray is flattened into a fresh list
eval(self, q, unit) ==
    LET r == CHOOSE x \in {eval_loop(self, 1, eye4, q.kind = "None", q.v, unit)} : TRUE
    IN  [status |-> r.status, val |-> r.val,
         qafter |-> IF q.kind = "list" THEN QList(r.ql) ELSE q]

\* ------------------------------------------------------ SuperETS.compile
\* compile_loop without the flush after the last element
RECURSIVE compile_loop_noflush(_, _, _, _)
compile_loop_noflush(self, i, const, out) ==
    IF i > Len(self)
    THEN out
    ELSE LET et == getitem(self, i)
         IN  IF isjoint(et)
             THEN LET flushed == IF ~IsNone(const) THEN imul(out, _CONST(const).data) ELSE out
                  IN  compile_loop_noflush(self, i + 1, None, imul(flushed, et))
             ELSE compile_loop_noflush(self, i + 1,
                               IF IsNone(const) THEN T(et, None) ELSE MatMul(const, T(et, None)),
                               out)

\* compile_loop keeping the pending constant after it is flushed at a joint
RECURSIVE compile_loop_noreset(_, _, _, _)
compile_loop_noreset(self, i, const, out) ==
    IF i > Len(self)
    THEN IF ~IsNone(const) THEN imul(out, _CONST(const).data) ELSE out
    ELSE LET et == getitem(self, i)
         IN  IF isjoint(et)
             THEN LET flushed == IF ~IsNone(const) THEN imul(out, _CONST(const).data) ELSE out
                  IN  compile_loop_noreset(self, i + 1, const, imul(flushed, et))
             ELSE compile_loop_noreset(self, i + 1,
                               IF IsNone(const) THEN T(et, None) ELSE MatMul(const, T(et, None)),
                               out)

\* compile_loop flushing every fixed element as a constant of its own
RECURSIVE compile_loop_nofold(_, _, _, _)
compile_loop_nofold(self, i, const, out) ==
    IF i > Len(self)
    THEN out
    ELSE LET et == getitem(self, i)
         IN  IF isjoint(et)
             THEN compile_loop_nofold(self, i + 1, None, imul(out, et))
             ELSE compile_loop_nofold(self, i + 1, None, imul(out, _CONST(T(et, None)).data))

\* the loop of compile from element i on; const is the pending product of
\* constants (None when there is none), out the data of ets
RECURSIVE compile_loop(_, _, _, _)
compile_loop(self, i, const, out) ==
    IF i > Len(self)
    THEN IF ~IsNone(const) THEN imul(out, _CONST(const).data) ELSE out
    ELSE LET et == getitem(self, i)
         IN  IF isjoint(et)
             THEN LET flushed == IF ~IsNone(const) THEN imul(out, _CONST(const).data) ELSE out
                  IN  compile_loop(self, i + 1, None, imul(flushed, et))
             ELSE compile_loop(self, i + 1,
                               IF IsNone(const) THEN T(et, None) ELSE MatMul(const, T(et, None)),
                               out)

compile(self) == compile_loop(self, 1, None, init(None, None, None, "rad").data)

\* compile folding the constants of self in place and returning self
compile_inplace(h, self, prod) ==
    [heap |-> [h EXCEPT ![self] = compile(h[self])], result |-> self]

\* the same on instances: h is the heap, self the instance compile is
\* called on, prod the instance its ETS() makes; the instances its ets *=
\* statements make on the way are not kept.  Gives the heap after the call
\* and the instance returned
compile_call(h, self, prod) ==
    [heap |-> [h EXCEPT ![prod] = compile(h[self])], result |-> prod]

\* ------------------------------------------------------ SuperETS.__str__
\* the result is a string; f"{et.axis}" is the axis as one string
Format(ax) == IF Len(ax) = 1 THEN ax[1] ELSE ax[1] \o ax[2]

\* q.format(j, j + 1) for the two templates __str__ chooses between
QFormat(q, j) == IF q = "q{0}" THEN "q" \o ToString(j) ELSE q

\* " * ".join(es)
RECURSIVE Join(_)
Join(es) ==
    IF Len(es) = 0 THEN ""
    ELSE IF Len(es) = 1 THEN es[1]
    ELSE es[1] \o " * " \o Join(Tail(es))

\* str_loop numbering the constants with the counter of the joints
RECURSIVE str_loop_onecounter(_, _, _, _, _, _, _)
str_loop_onecounter(self, i, j, c, sv, es, q) ==
    IF i > Len(self)
    THEN [status |-> "ok", val |-> Join(es)]
    ELSE LET et == getitem(self, i)
             s1 == IF isjoint(et)
                   THEN <<Format(axis(et)) \o "(" \o QFormat(q, j) \o ")">>
                   ELSE IF isrevolute(et)
                   THEN <<Format(axis(et)) \o "(" \o ToString(et[1].eta[1] * 90) \o "°)">>
                   ELSE IF isprismatic(et)
                   THEN <<Format(axis(et)) \o "(" \o ToString(et[1].eta[1]) \o ")">>
                   ELSE IF isconstant(et)
                   THEN <<"C" \o ToString(j)>>
                   ELSE sv
             bump == isjoint(et) \/ (~isrevolute(et) /\ ~isprismatic(et) /\ isconstant(et))
         IN  IF IsNone(s1)
             THEN [status |-> "UnboundLocalError", val |-> None]
             ELSE str_loop_onecounter(self, i + 1, IF bump THEN j + 1 ELSE j, c, s1,
                                      Append(es, s1[1]), q)

\* the loop of __str__ from element i on: j joints and c constants seen so
\* far, sv the local s (None while it is not bound), es the tokens.  An
\* angle is printed in degrees (eta * 180 / pi, here eta * 90)
RECURSIVE str_loop(_, _, _, _, _, _, _)
str_loop(self, i, j, c, sv, es, q) ==
    IF i > Len(self)
    THEN [status |-> "ok", val |-> Join(es)]
    ELSE LET et == getitem(self, i)
             s1 == IF isjoint(et)
                   THEN <<Format(axis(et)) \o "(" \o QFormat(q, j) \o ")">>
                   ELSE IF isrevolute(et)
                   THEN <<Format(axis(et)) \o "(" \o ToString(et[1].eta[1] * 90) \o "°)">>
                   ELSE IF isprismatic(et)
                   THEN <<Format(axis(et)) \o "(" \o ToString(et[1].eta[1]) \o ")">>
                   ELSE IF isconstant(et)
                   THEN <<"C" \o ToString(c)>>
                   ELSE sv
         IN  IF IsNone(s1)
             THEN [status |-> "UnboundLocalError", val |-> None]
             ELSE str_loop(self, i + 1,
                           IF isjoint(et) THEN j + 1 ELSE j,
                           IF ~isjoint(et) /\ ~isrevolute(et) /\ ~isprismatic(et) /\ isconstant(et)
                           THEN c + 1 ELSE c,
                           s1, Append(es, s1[1]), q)

\* str(self): __str__ with q = None
__str__(self) ==
    str_loop(self, 1, 0, 0, None, <<>>, IF Len(joints(self)) > 1 THEN "q{0}" ELSE "q")

\* ----------------------------------------------------------- ETS.jacob0
\* np.linalg.inv of a rigid transform [R t; 0 1]: [R' -R't; 0 1]
InvRow(U, i) ==
    <<U[1][i], U[2][i], U[3][i], -(U[1][i] * U[1][4] + U[2][i] * U[2][4] + U[3][i] * U[3][4])>>

inv(U) == <<InvRow(U, 1), InvRow(U, 2), InvRow(U, 3), <<0, 0, 0, 1>> >>

\* U[:3, c], v * s, v - w on 3-vectors
Col3(U, c) == <<U[1][c], U[2][c], U[3][c]>>
Scale3(v, s) == <<v[1] * s, v[2] * s, v[3] * s>>
Sub3(v, w) == <<v[1] - w[1], v[2] - w[2], v[3] - w[3]>>

\* the column J[:, j] written for the joint et: J[:3, j] then J[3:, j]
jacob0_column(et, U, Tu) ==
    LET nv == Col3(U, 1)
        ov == Col3(U, 2)
        av == Col3(U, 3)
        x == Tu[1][4]
        y == Tu[2][4]
        z == Tu[3][4]
    IN  CASE axis(et) = <<"R", "z">> -> Sub3(Scale3(ov, x), Scale3(nv, y)) \o av
          [] axis(et) = <<"R", "y">> -> Sub3(Scale3(nv, z), Scale3(av, x)) \o ov
          [] axis(et) = <<"R", "x">> -> Sub3(Scale3(av, y), Scale3(ov, z)) \o nv
          [] axis(et) = <<"t", "x">> -> nv \o <<0, 0, 0>>
          [] axis(et) = <<"t", "y">> -> ov \o <<0, 0, 0>>
          [] axis(et) = <<"t", "z">> -> av \o <<0, 0, 0>>

\* the loop of jacob0 from element i on; J is the list of the columns of
\* the 6 x n matrix, j the next column
RECURSIVE jacob0_loop(_, _, _, _, _, _, _)
jacob0_loop(self, i, U, j, J, qv, Tm) ==
    IF i > Len(self)
    THEN J
    ELSE LET et == getitem(self, i)
         IN  IF isjoint(et)
             THEN LET U1 == MatMul(U, Apply(axis_func(et), qv[j + 1]))
                      Tu == MatMul(inv(U1), Tm)
                  IN  jacob0_loop(self, i + 1, U1, j + 1,
                                  [J EXCEPT ![j + 1] = jacob0_column(et, U1, Tu)], qv, Tm)
             ELSE jacob0_loop(self, i + 1, MatMul(U, T(et, None)), j, J, qv, Tm)

\* the statements of jacob0 after the test of offset
jacob0_rest(self, q, Tm) ==
    LET nr == n(self)
    IN  IF nr.status # "ok"
        THEN [status |-> nr.status, val |-> None]
        ELSE IF q.kind = "None"
        THEN [status |-> "TypeError", val |-> None]
        ELSE IF Len(q.v) # 0 /\ Len(q.v) # nr.val
        THEN [status |-> "ValueError", val |-> None]
        ELSE LET e == eval(self, QArray(q.v), "rad")
                 Te == IF IsNone(Tm) THEN e.val ELSE Tm
             IN  IF IsNone(Tm) /\ e.status # "ok"
                 THEN [status |-> e.status, val |-> None]
                 ELSE [status |-> "ok",
                       val |-> jacob0_loop(self, 1, eye4, 0,
                                           [c \in 1..nr.val |-> <<0, 0, 0, 0, 0, 0>>], q.v, Te)]

\* offset is a local name of jacob0: its one assignment (line 670) stands
\* under the test "offset is None" (line 669) that reads it first
offset_bound == FALSE

\* jacob0(q, T): the exception raised ("ok" for none) and the matrix returned
jacob0(self, q, Tm) ==
    IF ~offset_bound
    THEN [status |-> "UnboundLocalError", val |-> None]
    ELSE jacob0_rest(self, q, Tm)

\* ---------------------------------------------------------- ETS.hessian0
\* a Jacobian is the tuple of its columns, a column the 6 entries of a
\* spatial velocity: J0[:3, j] and J0[3:, j]
Lin(J, j) == <<J[j][1], J[j][2], J[j][3]>>
Ang(J, j) == <<J[j][4], J[j][5], J[j][6]>>

\* np.cross(a, b)
Cross(a, b) ==
    <<a[2] * b[3] - a[3] * b[2], a[3] * b[1] - a[1] * b[3], a[1] * b[2] - a[2] * b[1]>>

\* the loops of hessian0: H[i][j] is H[:, i, j].  For i >= j both blocks
\* are computed; for i < j only H[:3, i, j] is assigned, from H[:3, j, i],
\* and H[3:, i, j] keeps the zeros H was made with
hessian0_rest(J0, nj) ==
    [i \in 1..nj |-> [j \in 1..nj |->
        IF i >= j
        THEN Cross(Ang(J0, j), Lin(J0, i)) \o Cross(Ang(J0, j), Ang(J0, i))
        ELSE Cross(Ang(J0, i), Lin(J0, j)) \o <<0, 0, 0>>]]

\* verifymatrix is not among the names the module imports (line 10)
verifymatrix_bound == FALSE

\* the caller's Jacobian: None or an ndarray(6,n), which may have no column
JNone == [kind |-> "None", v |-> <<>>]
JArray(cols) == [kind |-> "ndarray", v |-> cols]

\* hessian0(q, J0): the exception raised ("ok" for none) and the tensor
hessian0(self, q, J0) ==
    LET nr == n(self)
    IN  IF nr.status # "ok"
        THEN [status |-> nr.status, val |-> None]
        ELSE IF J0.kind = "None"
        THEN IF q.kind = "None"
             THEN [status |-> "AttributeError", val |-> None]
             ELSE IF Len(q.v) # 0 /\ Len(q.v) # nr.val
             THEN [status |-> "ValueError", val |-> None]
             ELSE LET jr == jacob0(self, QArray(q.v), None)
                  IN  IF jr.status # "ok"
                      THEN [status |-> jr.status, val |-> None]
                      ELSE [status |-> "ok", val |-> hessian0_rest(jr.val, nr.val)]
        ELSE IF ~verifymatrix_bound
        THEN [status |-> "NameError", val |-> None]
        ELSE [status |-> "ok", val |-> hessian0_rest(J0.v, nr.val)]

\* ======================================================== the state machine
\* ets: the data of the sequence the calls are made on.
\* ret: the last call, op its name, status the exception it raised ("ok"
\*      for none), val what it returned, q the caller's joint vector before
\*      the call and qafter after it, unit the unit passed.
\* heap, env: the instances and the names bound to them (SpecHeap).

\* the caller's names, each bound to an instance (0: not bound yet), and
\* the instances there can be: one per name and two temporaries
NameSeq == <<"a", "b", "c">>
Names == {NameSeq[i] : i \in 1..Len(NameSeq)}
ObjIds == 1..(Len(NameSeq) + 2)

Ret(op, status, val, q, unit, qafter) ==
    [op |-> op, status |-> status, val |-> val, q |-> q, unit |-> unit, qafter |-> qafter]

Init ==
    /\ ets = init(None, None, None, "rad").data
    /\ ret = Ret("init", "ok", None, QNone, "rad", QNone)
    /\ heap = [o \in ObjIds |-> <<>>]
    /\ env = [x \in Names |-> 0]

\* the factory calls made
Factories ==
    {rz(None, "rad"), tx(None), tx(Num(1)), ty(Num(2)), tz(Num(3)), rx(Num(90), "deg"),
     rz(None, "deg")}

\* the joint values passed: quarter turns (lengths), or degrees
QVals(unit) == IF unit = "deg" THEN {90 * k : k \in 0..MaxQ} ELSE 0..MaxQ

\* the vectors of at most m entries
QVecs(m, unit) == UNION {[1..l -> QVals(unit)] : l \in 0..m}

\* the caller runs statements that build its sequences, then makes one
\* call whose outcome ret records
Building == ret.op \in {"init", "stmt"}

\* ets = ets * f for a factory call f
Build(f) ==
    /\ Building
    /\ Len(ets) < MaxLen
    /\ IF f.status = "ok"
       THEN /\ ets' = mul(ets, f.data)
            /\ ret' = Ret("stmt", "ok", None, QNone, "rad", QNone)
       ELSE /\ ets' = ets
            /\ ret' = Ret("init", f.status, None, QNone, "rad", QNone)
    /\ UNCHANGED <<heap, env>>

\* ets.n
CallN ==
    /\ Building
    /\ \E r \in {n(ets)} : ret' = Ret("n", r.status, r.val, QNone, "rad", QNone)
    /\ UNCHANGED <<ets, heap, env>>

\* ets.config
CallConfig ==
    /\ Building
    /\ ret' = Ret("config", "ok", config(ets), QNone, "rad", QNone)
    /\ UNCHANGED <<ets, heap, env>>

\* ets.eval(q, unit)
CallEval(q, unit) ==
    /\ Building
    /\ \E r \in {eval(ets, q, unit)} :
           ret' = Ret("eval", r.status, r.val, q, unit, r.qafter)
    /\ UNCHANGED <<ets, heap, env>>

\* ets.compile()
CallCompile ==
    /\ Building
    /\ ret' = Ret("compile", "ok", compile(ets), QNone, "rad", QNone)
    /\ UNCHANGED <<ets, heap, env>>

\* c = ets.compile(); c.compile()
CallCompileTwice ==
    /\ Building
    /\ \E c \in {compile(ets)} :
           ret' = Ret("compile2", "ok", <<c, compile(c)>>, QNone, "rad", QNone)
    /\ UNCHANGED <<ets, heap, env>>

\* ets.jacob0(q)
CallJacob0(q) ==
    /\ Building
    /\ \E r \in {jacob0(ets, q, None)} :
           ret' = Ret("jacob0", r.status, r.val, q, "rad", q)
    /\ UNCHANGED <<ets, heap, env>>

\* ets.pop(i); pop() is pop(-1)
CallPop(i) ==
    /\ Building
    /\ \E r \in {pop(ets, i)} :
           /\ ets' = r.data
           /\ ret' = Ret("pop", r.status, [item |-> r.item, before |-> ets, i |-> i],
                         QNone, "rad", QNone)
    /\ UNCHANGED <<heap, env>>

\* the positions pop is called with: every position of ets counted from
\* either end, and one past each end
PopArgs == (-(Len(ets) + 1))..Len(ets)

\* str(ets)
CallStr ==
    /\ Building
    /\ \E r \in {__str__(ets)} :
           ret' = Ret("str", r.status, [self |-> ets, s |-> r.val], QNone, "rad", QNone)
    /\ UNCHANGED <<ets, heap, env>>

\* str(ets.compile())
CallCompileStr ==
    /\ Building
    /\ \E c \in {compile(ets)} : \E r \in {__str__(c)} :
           ret' = Ret("str", r.status, [self |-> c, s |-> r.val], QNone, "rad", QNone)
    /\ UNCHANGED <<ets, heap, env>>

\* ets.hessian0(q, J0)
CallHessian0(q, J0) ==
    /\ Building
    /\ \E r \in {hessian0(ets, q, J0)} :
           ret' = Ret("hessian0", r.status, [J0 |-> J0, H |-> r.val], q, "rad", q)
    /\ UNCHANGED <<ets, heap, env>>

\* the columns of the Jacobians passed: a slide along x with a turn about
\* z, a slide along y with a turn about x, a slide along z
J0Cols == {<<1, 0, 0, 0, 0, 1>>, <<0, 1, 0, 1, 0, 0>>, <<0, 0, 1, 0, 0, 0>>}

\* the vectors a call is made with on ets: those of at most one entry per
\* joint, and those of one entry per joint followed by one entry more
QCallVecs(unit) ==
    QVecs(Len(joints(ets)), unit)
        \cup {v \o <<0>> : v \in [1..Len(joints(ets)) -> QVals(unit)]}

\* the arguments of eval: None, a list or an ndarray
QArgs(unit) ==
    {QNone} \cup {QList(v) : v \in QCallVecs(unit)} \cup {QArray(v) : v \in QCallVecs(unit)}

\* the arguments of jacob0: None or a list
JArgs == {QNone} \cup {QList(v) : v \in QCallVecs("rad")}

\* the arguments (q, J0) of hessian0: a 6 x n Jacobian for the n joints of
\* ets and no q, or no Jacobian and a q as for jacob0
HArgs ==
    {<<QNone, JArray(J)>> : J \in [1..Len(joints(ets)) -> J0Cols]}
        \cup {<<q, JNone>> : q \in JArgs}

Next ==
    \/ \E f \in Factories : Build(f)
    \/ CallN
    \/ CallConfig
    \/ Building /\ \E unit \in {"rad", "deg"} : \E q \in QArgs(unit) : CallEval(q, unit)
    \/ CallCompile
    \/ CallCompileTwice
    \/ Building /\ \E q \in JArgs : CallJacob0(q)
    \/ Building /\ \E i \in PopArgs : CallPop(i)
    \/ CallStr
    \/ CallCompileStr
    \/ Building /\ \E a \in HArgs : CallHessian0(a[1], a[2])

Spec == Init /\ [][Next]_vars

\* ================================================================ claims
\* what the claims speak of, said without the operations above
JointCount(S) == Cardinality({i \in 1..Len(S) : S[i].joint})
JointElems(S) == SelectSeq(S, LAMBDA e : e.joint)
JointAxes(S) == [k \in 1..Len(JointElems(S)) |-> JointElems(S)[k].axis]

\* the number of joints among the first k elements of S
JointsUpTo(S, k) == Cardinality({i \in 1..k : S[i].joint})

\* the transform of an axis at the value v
AxisTransform(ax, v) ==
    CASE ax = <<"R", "x">> -> trotx(v)
      [] ax = <<"R", "y">> -> troty(v)
      [] ax = <<"R", "z">> -> trotz(v)
      [] ax = <<"t", "x">> -> tx_axis_func(v)
      [] ax = <<"t", "y">> -> ty_axis_func(v)
      [] ax = <<"t", "z">> -> tz_axis_func(v)

\* the transform of element k of S under the joint vector qv: a joint takes
\* the entry of its rank among the joints (in radians), any other element
\* its cached transform
ElemPose(S, qv, unit, k) ==
    IF S[k].joint
    THEN LET v == qv[JointsUpTo(S, k)]
         IN  AxisTransform(S[k].axis, IF S[k].axis[1] = "R" /\ unit = "deg" THEN v \div 90 ELSE v)
    ELSE S[k].T

\* identity * pose(1) * ... * pose(k)
RECURSIVE PoseUpTo(_, _, _, _)
PoseUpTo(S, qv, unit, k) ==
    IF k = 0 THEN eye4 ELSE MatMul(PoseUpTo(S, qv, unit, k - 1), ElemPose(S, qv, unit, k))

\* the joint vectors eval accepts for S: a list or an ndarray with one entry
\* per joint, and None when S has no joint
ValidQ(S, unit) ==
    {QList(v) : v \in [1..JointCount(S) -> QVals(unit)]}
        \cup {QArray(v) : v \in [1..JointCount(S) -> QVals(unit)]}
        \cup (IF JointCount(S) = 0 THEN {QNone} ELSE {})

\* q is one of them
IsValidQ(S, q) ==
    IF q.kind = "None" THEN JointCount(S) = 0 ELSE Len(q.v) = JointCount(S)

\* C1: S.n is the number of elements of S whose isjoint flag is true.
C1_NCountsJoints ==
    ret.op = "n" => ret.status = "ok" /\ ret.val = JointCount(ets)

\* C2: S.config has one character per joint element, in joint order, 'R'
\* for a rotation joint and 'P' for a translation joint.
C2_ConfigPerJoint ==
    ret.op = "config" =>
        /\ Len(ret.val) = JointCount(ets)
        /\ \A k \in 1..JointCount(ets) :
               ret.val[k] = (IF JointAxes(ets)[k][1] = "R" THEN "R" ELSE "P")

\* C3: for q of length joint_count, eval(q) is the identity right-multiplied
\* in sequence order by each element's transform, the k-th joint using q[k]
\* and every other element its cached transform; a chain tx(a) * ty(b) *
\* tz(c) of constants evaluates to identity rotation with translation (a,b,c).
C3_EvalIsProduct ==
    (ret.op = "eval" /\ IsValidQ(ets, ret.q)) =>
        /\ ret.status = "ok"
        /\ ret.val = PoseUpTo(ets, ret.q.v, ret.unit, Len(ets))
        /\ (/\ Len(ets) = 3
            /\ JointCount(ets) = 0
            /\ JointAxes(ets) = <<>>
            /\ <<ets[1].axis, ets[2].axis, ets[3].axis>> = << <<"t", "x">>, <<"t", "y">>, <<"t", "z">> >>)
           => ret.val = << <<1, 0, 0, ets[1].eta[1]>>, <<0, 1, 0, ets[2].eta[1]>>,
                           <<0, 0, 1, ets[3].eta[1]>>, <<0, 0, 0, 1>> >>

\* C3 witness: eval returned a pose for a sequence of two joints and a
\* constant and a vector whose two entries differ.
C3_Witness ==
    /\ ret.op = "eval"
    /\ ret.status = "ok"
    /\ Len(ets) = 3
    /\ JointCount(ets) = 2
    /\ ~ets[2].joint
    /\ IsValidQ(ets, ret.q)
    /\ ret.q.v[1] # ret.q.v[2]
    /\ ret.val # PoseUpTo(ets, <<ret.q.v[2], ret.q.v[1]>>, ret.unit, Len(ets))

\* C4: eval(q) with a vector shorter or longer than the number of joint
\* elements reports an error and returns no pose.
C4_EvalRejectsWrongLength ==
    (ret.op = "eval" /\ ret.q.kind # "None" /\ Len(ret.q.v) # JointCount(ets)) =>
        ret.status # "ok" /\ IsNone(ret.val)

\* C5: compile(S).eval(q) equals S.eval(q) for every valid q, and compile(S)
\* has the joints of S: as many, of the same axes, in the same order.
C5_CompilePreservesEval ==
    ret.op = "compile" =>
        /\ JointAxes(ret.val) = JointAxes(ets)
        /\ \A unit \in {"rad", "deg"} : \A q \in ValidQ(ets, unit) :
               \E r \in {eval(ets, q, unit)} :
                   /\ r.status = "ok"
                   /\ eval(ret.val, q, unit) = r

\* C5 witness: compile folded two constants of a sequence that has a joint.
C5_Witness ==
    /\ ret.op = "compile"
    /\ JointCount(ets) >= 1
    /\ Len(ret.val) < Len(ets)

\* C6: compile(compile(S)) has as many elements as compile(S), the same
\* element kinds position by position, and evaluates identically.
C6_CompileIdempotent ==
    ret.op = "compile2" =>
        LET c1 == ret.val[1]
            c2 == ret.val[2]
        IN  /\ Len(c2) = Len(c1)
            /\ \A i \in 1..Len(c1) : c2[i].axis = c1[i].axis /\ c2[i].joint = c1[i].joint
            /\ \A unit \in {"rad", "deg"} : \A q \in ValidQ(c1, unit) :
                   \E r \in {eval(c1, q, unit)} :
                       /\ r.status = "ok"
                       /\ eval(c2, q, unit) = r

\* C6 witness: compile ran twice on a sequence with a joint between two
\* constants.
C6_Witness ==
    /\ ret.op = "compile2"
    /\ Len(ets) = 3
    /\ ~ets[1].joint /\ ets[2].joint /\ ~ets[3].joint
    /\ Len(ret.val[1]) = 3

\* C9: jacob0 on a sequence with no joint elements, with an empty joint
\* vector, returns a 6x0 matrix and raises no error.
C9_Jacob0NoJoints ==
    (ret.op = "jacob0" /\ JointCount(ets) = 0 /\ ret.q.kind # "None" /\ Len(ret.q.v) = 0) =>
        ret.status = "ok" /\ ret.val = <<>>

\* C10: for n >= 1 joints and q of length n, jacob0(q) completes and returns
\* a 6xn matrix, one column per joint, the column of a prismatic joint with
\* a zero angular part.
C10_Jacob0Columns ==
    (ret.op = "jacob0" /\ JointCount(ets) >= 1 /\ ret.q.kind # "None"
        /\ Len(ret.q.v) = JointCount(ets)) =>
        /\ ret.status = "ok"
        /\ Len(ret.val) = JointCount(ets)
        /\ \A j \in 1..JointCount(ets) :
               /\ Len(ret.val[j]) = 6
               /\ JointAxes(ets)[j][1] = "t" => SubSeq(ret.val[j], 4, 6) = <<0, 0, 0>>

\* ============================================= instances and names (SpecHeap)
\* the instances some name is bound to; the others are garbage
Live(e) == {e[x] : x \in Names} \ {0}

\* ETS(): the instance made, one not in use
Fresh(used) == CHOOSE o \in ObjIds \ used : \A p \in ObjIds \ used : o <= p

\* Nothing reads the identity of an instance but "is the same instance", so
\* after each statement the instances are numbered in the order of the
\* names bound to them, and those no name is bound to are collected.
FirstName(e, o) ==
    CHOOSE i \in 1..Len(NameSeq) : e[NameSeq[i]] = o /\ \A j \in 1..(i - 1) : e[NameSeq[j]] # o

Rank(e, o) == Cardinality({FirstName(e, p) : p \in {p \in Live(e) : FirstName(e, p) <= FirstName(e, o)}})

CollectEnv(e) == [x \in Names |-> IF e[x] = 0 THEN 0 ELSE Rank(e, e[x])]

Collect(h, e) ==
    [k \in ObjIds |-> IF \E o \in Live(e) : Rank(e, o) = k
                      THEN h[CHOOSE o \in Live(e) : Rank(e, o) = k]
                      ELSE <<>>]

\* the factory calls made on the heap
HeapFactories == {init(None, None, None, "rad"), rz(None, "rad"), tx(Num(1))}

\* what ret holds after a statement: nothing of it when rec is FALSE (one
\* of the statements that build the sequences), else its operands and the
\* names and instances as they were before it
Stmt(rec, op, target, self, rest) ==
    IF rec
    THEN Ret(op, "ok", [target |-> target, self |-> self, rest |-> rest, env |-> env, heap |-> heap],
             QNone, "rad", QNone)
    ELSE Ret("stmt", "ok", None, QNone, "rad", QNone)

\* x = f for a factory call f
NewOp(x, f) ==
    /\ Building
    /\ LET o == Fresh(Live(env))
           e1 == [env EXCEPT ![x] = o]
       IN  /\ env' = CollectEnv(e1)
           /\ heap' = Collect([heap EXCEPT ![o] = f.data], e1)
    /\ ret' = Stmt(FALSE, "new", x, x, x)
    /\ UNCHANGED ets

\* x = y
AliasOp(x, y) ==
    /\ Building
    /\ env[y] # 0
    /\ env[x] # env[y]
    /\ LET e1 == [env EXCEPT ![x] = env[y]]
       IN  /\ env' = CollectEnv(e1)
           /\ heap' = Collect(heap, e1)
    /\ ret' = Stmt(FALSE, "alias", x, y, y)
    /\ UNCHANGED ets

\* z = x * y
MulOp(z, x, y, rec) ==
    /\ Building
    /\ env[x] # 0 /\ env[y] # 0
    /\ Len(heap[env[x]]) + Len(heap[env[y]]) <= MaxHeapLen
    /\ LET r == mul_call(heap, env[x], env[y], Fresh(Live(env)))
           e1 == [env EXCEPT ![z] = r.result]
       IN  /\ env' = CollectEnv(e1)
           /\ heap' = Collect(r.heap, e1)
    /\ ret' = Stmt(rec, "mul", z, x, y)
    /\ UNCHANGED ets

\* x *= y
IMulOp(x, y, rec) ==
    /\ Building
    /\ env[x] # 0 /\ env[y] # 0
    /\ Len(heap[env[x]]) + Len(heap[env[y]]) <= MaxHeapLen
    /\ LET r == imul_call(heap, env[x], env[y], Fresh(Live(env)))
           e1 == [env EXCEPT ![x] = r.result]
       IN  /\ env' = CollectEnv(e1)
           /\ heap' = Collect(r.heap, e1)
    /\ ret' = Stmt(rec, "imul", x, x, y)
    /\ UNCHANGED ets

\* (x * y) * z and x * (y * z), each product a new instance that no name
\* is bound to afterwards; val holds the data of the two results
AssocOp(x, y, z) ==
    /\ Building
    /\ env[x] # 0 /\ env[y] # 0 /\ env[z] # 0
    /\ LET o1 == Fresh(Live(env))
           o2 == Fresh(Live(env) \cup {o1})
           xy == mul_call(heap, env[x], env[y], o1)
           xy_z == mul_call(xy.heap, xy.result, env[z], o2)
           yz == mul_call(heap, env[y], env[z], o1)
           x_yz == mul_call(yz.heap, env[x], yz.result, o2)
       IN  ret' = Ret("assoc", "ok",
                      [left |-> xy_z.heap[xy_z.result], right |-> x_yz.heap[x_yz.result],
                       x |-> x, y |-> y, z |-> z],
                      QNone, "rad", QNone)
    /\ UNCHANGED <<ets, heap, env>>

NextHeap ==
    \/ \E x \in Names : \E f \in HeapFactories : NewOp(x, f)
    \/ \E x, y \in Names : AliasOp(x, y)
    \/ \E x, y, z \in Names : \E rec \in BOOLEAN : MulOp(z, x, y, rec)
    \/ \E x, y \in Names : \E rec \in BOOLEAN : IMulOp(x, y, rec)
    \/ \E x, y, z \in Names : AssocOp(x, y, z)

SpecHeap == Init /\ [][NextHeap]_vars

\* ------------------------------------------------------- claims on SpecHeap
\* the data bound to the name x before the recorded statement
Before(x) == ret.val.heap[ret.val.env[x]]

\* C7: A * B is a sequence whose elements are those of A followed by those
\* of B; (A * B) * C and A * (B * C) have the same element list; ETS() is
\* a left and a right identity.
C7_ConcatAlgebra ==
    /\ ret.op = "mul" =>
           LET A == Before(ret.val.self)
               B == Before(ret.val.rest)
               P == heap[env[ret.val.target]]
           IN  /\ Len(P) = Len(A) + Len(B)
               /\ \A i \in 1..Len(A) : P[i] = A[i]
               /\ \A i \in 1..Len(B) : P[Len(A) + i] = B[i]
               /\ Len(A) = 0 => P = B
               /\ Len(B) = 0 => P = A
    /\ ret.op = "assoc" => ret.val.left = ret.val.right

\* C7 witness: (A * B) * C and A * (B * C) were formed from three non-empty
\* operands that are not all alike.
C7_Witness ==
    /\ ret.op = "assoc"
    /\ Len(heap[env[ret.val.x]]) = 1 /\ Len(heap[env[ret.val.y]]) = 1 /\ Len(heap[env[ret.val.z]]) = 1
    /\ Len(ret.val.left) = 3
    /\ ret.val.left[1] # ret.val.left[2]
    /\ ret.val.left[2] # ret.val.left[3]

\* C8: P = A * B and A2 *= B leave every instance they read as it was: each
\* name other than the one assigned is bound to the same instance as
\* before, with the element list it had before.
C8_OperandsNotMutated ==
    ret.op \in {"mul", "imul"} =>
        \A m \in Names \ {ret.val.target} :
            /\ (env[m] = 0) = (ret.val.env[m] = 0)
            /\ env[m] # 0 => heap[env[m]] = Before(m)
            /\ \A k \in Names \ {ret.val.target} :
                   (env[m] = env[k]) = (ret.val.env[m] = ret.val.env[k])

\* C8 witness: A2 *= B was run with a non-empty B while another name was
\* bound to the instance A2 was bound to; that name still sees the shorter
\* list.
C8_Witness ==
    /\ ret.op = "imul"
    /\ Len(Before(ret.val.rest)) > 0
    /\ \E m \in Names \ {ret.val.target} :
           /\ ret.val.env[m] = ret.val.env[ret.val.target]
           /\ env[m] # env[ret.val.target]
           /\ Len(heap[env[m]]) < Len(heap[env[ret.val.target]])

\* C11: pop(i) on a sequence of length L > 0, for a position i it has
\* (pop() is i = -1, the last), raises nothing, returns a sequence of
\* length 1 holding the element that was at that position, and leaves the
\* sequence with L - 1 elements: the others, in their order.
C11_PopRemovesOne ==
    (/\ ret.op = "pop"
     /\ Len(ret.val.before) > 0
     /\ PopPos(Len(ret.val.before), ret.val.i) \in 1..Len(ret.val.before)) =>
        LET before == ret.val.before
            k == PopPos(Len(before), ret.val.i)
        IN  /\ ret.status = "ok"
            /\ Len(ret.val.item) = 1
            /\ ret.val.item[1] = before[k]
            /\ Len(ets) = Len(before) - 1
            /\ \A m \in 1..Len(ets) : ets[m] = IF m < k THEN before[m] ELSE before[m + 1]
            /\ (ret.val.i = -1 => ret.val.item[1] = before[Len(before)])

\* C11 witness: pop(1) was called on a sequence of three different
\* elements and returned the middle one.
C11_Witness ==
    /\ ret.op = "pop"
    /\ ret.status = "ok"
    /\ ret.val.i = 1
    /\ Len(ret.val.before) = 3
    /\ ret.val.before[1] # ret.val.before[2]
    /\ ret.val.before[2] # ret.val.before[3]
    /\ ret.val.item = <<ret.val.before[2]>>
    /\ Len(ets) = 2

\* C12: pop() on a sequence with no elements raises IndexError, returns no
\* sequence and leaves the sequence empty.
C12_PopEmptyRaises ==
    (ret.op = "pop" /\ Len(ret.val.before) = 0) =>
        /\ ret.status = "IndexError"
        /\ ret.val.item = None
        /\ ets = <<>>

\* C12 witness: pop() was called on ETS() and raised.
C12_Witness ==
    /\ ret.op = "pop"
    /\ ret.val.i = -1
    /\ ret.val.before = <<>>
    /\ ret.status = "IndexError"

\* the token the claim gives element k of S: axis(q<i>) for the joint of
\* rank i when S has several joints, axis(q) for the only joint, C<i> for
\* the constant of rank i among the constants, and for a fixed rotation or
\* translation its axis and its angle in degrees or its length
Token(S, k) ==
    IF S[k].joint
    THEN Format(S[k].axis) \o "(q"
             \o (IF JointCount(S) > 1 THEN ToString(JointsUpTo(S, k) - 1) ELSE "") \o ")"
    ELSE IF S[k].axis = <<"C">>
    THEN "C" \o ToString(Cardinality({m \in 1..(k - 1) : S[m].axis = <<"C">>}))
    ELSE IF S[k].axis[1] = "R"
    THEN Format(S[k].axis) \o "(" \o ToString(90 * S[k].eta[1]) \o "°)"
    ELSE Format(S[k].axis) \o "(" \o ToString(S[k].eta[1]) \o ")"

\* the tokens of elements 1..k, each followed by " * " but the last of S
RECURSIVE TokensUpTo(_, _)
TokensUpTo(S, k) ==
    IF k = 0 THEN ""
    ELSE TokensUpTo(S, k - 1) \o Token(S, k) \o (IF k < Len(S) THEN " * " ELSE "")

\* C16: str(S) is the tokens of the elements of S in order, joined by
\* " * ": a joint is shown as axis(q0), axis(q1), ... by its rank among the
\* joints when S has more than one joint and as axis(q) when it is the
\* only one; the constants compile makes are shown as C0, C1, ... by their
\* rank among the constants.
C16_StrTokens ==
    ret.op = "str" =>
        /\ ret.status = "ok"
        /\ ret.val.s = TokensUpTo(ret.val.self, Len(ret.val.self))

\* C16 witness: a compiled sequence of a joint between two constants was
\* printed, and one of two joints around a constant.
C16_Witness ==
    /\ ret.op = "str"
    /\ ret.val.s \in {"C0 * Rz(q) * C1", "Rz(q0) * C0 * tx(q1)"}

\* the maximal runs of consecutive elements of S that are not joints: the
\* positions where one starts
RunStarts(S) == {k \in 1..Len(S) : ~S[k].joint /\ (k = 1 \/ S[k - 1].joint)}

\* the product of the cached transforms of the run that starts at k
RECURSIVE RunProduct(_, _)
RunProduct(S, k) ==
    IF k < Len(S) /\ ~S[k + 1].joint THEN MatMul(S[k].T, RunProduct(S, k + 1)) ELSE S[k].T

\* what the claim gives for the elements of S from k on: a joint as it is,
\* one constant for a run
RECURSIVE Folded(_, _)
Folded(S, k) ==
    IF k > Len(S) THEN <<>>
    ELSE IF S[k].joint THEN <<S[k]>> \o Folded(S, k + 1)
    ELSE IF k \in RunStarts(S)
    THEN <<ETS3(None, None, <<"C">>, FALSE, RunProduct(S, k))>> \o Folded(S, k + 1)
    ELSE Folded(S, k + 1)

\* C17: compile(S) is S with every maximal run of consecutive non-joint
\* elements replaced by one constant (axis 'C', the product of the run) and
\* every joint as it was; no two neighbours of the result are both
\* non-joints, its length is the number of joints plus the number of runs,
\* and it is shorter than S when S has two consecutive non-joints.
C17_CompileFoldsRuns ==
    ret.op = "compile" =>
        /\ ret.val = Folded(ets, 1)
        /\ \A k \in 1..(Len(ret.val) - 1) : ret.val[k].joint \/ ret.val[k + 1].joint
        /\ Len(ret.val) = JointCount(ets) + Cardinality(RunStarts(ets))
        /\ (\E k \in 1..(Len(ets) - 1) : ~ets[k].joint /\ ~ets[k + 1].joint) =>
               Len(ret.val) < Len(ets)

\* C17 witness: a run of two fixed elements before a joint was folded into
\* one constant.
C17_Witness ==
    /\ ret.op = "compile"
    /\ Len(ets) = 3
    /\ ~ets[1].joint /\ ~ets[2].joint /\ ets[3].joint
    /\ ets[1] # ets[2]
    /\ Len(ret.val) = 2
    /\ ret.val[1].axis = <<"C">>
    /\ ret.val[2] = ets[3]

\* C18: eval leaves the caller's joint vector as it was, so a second
\* eval(q) with the same vector object gives the pose the first gave.
C18_EvalKeepsQ ==
    (ret.op = "eval" /\ ret.status = "ok") =>
        /\ ret.qafter = ret.q
        /\ \E r \in {eval(ets, ret.qafter, ret.unit)} :
               r.status = "ok" /\ r.val = ret.val

\* ret records hessian0 called with a Jacobian of one column per joint
HessianGivenJ0 ==
    /\ ret.op = "hessian0"
    /\ ret.val.J0.kind = "ndarray"
    /\ Len(ret.val.J0.v) = JointCount(ets)

\* C19: called with a 6 x n Jacobian J0, hessian0 returns a 6 x n x n
\* tensor H in which, for every i > j, H[:3, i, j] is the cross product of
\* J0[3:, j] and J0[:3, i], and H[:3, j, i] is the same vector.
C19_HessianLinearMirror ==
    HessianGivenJ0 =>
        /\ ret.status = "ok"
        /\ DOMAIN ret.val.H = 1..JointCount(ets)
        /\ \A i \in 1..JointCount(ets) :
               /\ DOMAIN ret.val.H[i] = 1..JointCount(ets)
               /\ \A j \in 1..(i - 1) :
                      /\ SubSeq(ret.val.H[i][j], 1, 3)
                             = Cross(Ang(ret.val.J0.v, j), Lin(ret.val.J0.v, i))
                      /\ SubSeq(ret.val.H[j][i], 1, 3) = SubSeq(ret.val.H[i][j], 1, 3)

\* C20: called with a 6 x n Jacobian, hessian0 returns a tensor H in which
\* H[3:, j, i] = H[3:, i, j] for every i # j.
C20_HessianAngularMirror ==
    (HessianGivenJ0 /\ JointCount(ets) >= 2) =>
        /\ ret.status = "ok"
        /\ \A i, j \in 1..JointCount(ets) :
               i # j => SubSeq(ret.val.H[j][i], 4, 6) = SubSeq(ret.val.H[i][j], 4, 6)

\* ===================================================== shared sequences
\* A third specification: the caller builds sequences as in SpecHeap, then
\* the operations that only read are called, in any order and any number
\* of times, on one of them, through any of the names bound to it.
SharedReadOps == {"n", "config", "joints", "str", "eval", "jacob0", "hessian0", "compile"}

\* x.<op> is the next call: x is bound, and once the calls have begun they
\* stay on the instance the first was made on
Reading(x) ==
    /\ env[x] # 0
    /\ Building \/ (ret.op \in SharedReadOps /\ env[ret.val.self] = env[x])

\* what ret holds after a call on x whose result is bound to target (x
\* itself when the result is dropped); the call assigns nothing else
Read(op, status, x, target) ==
    ret' = Ret(op, status, [self |-> x, target |-> target], QNone, "rad", QNone)

\* a joint vector of zeros for the joints of S
ZeroQ(S) == QList([k \in 1..Len(joints(S)) |-> 0])

NOp(x) ==
    /\ Reading(x)
    /\ \E r \in {n(heap[env[x]])} : Read("n", r.status, x, x)
    /\ UNCHANGED <<ets, heap, env>>

ConfigOp(x) ==
    /\ Reading(x)
    /\ \E r \in {config(heap[env[x]])} : Read("config", "ok", x, x)
    /\ UNCHANGED <<ets, heap, env>>

JointsOp(x) ==
    /\ Reading(x)
    /\ \E r \in {joints(heap[env[x]])} : Read("joints", "ok", x, x)
    /\ UNCHANGED <<ets, heap, env>>

StrOp(x) ==
    /\ Reading(x)
    /\ \E r \in {__str__(heap[env[x]])} : Read("str", r.status, x, x)
    /\ UNCHANGED <<ets, heap, env>>

EvalOp(x) ==
    /\ Reading(x)
    /\ \E r \in {eval(heap[env[x]], ZeroQ(heap[env[x]]), "rad")} : Read("eval", r.status, x, x)
    /\ UNCHANGED <<ets, heap, env>>

Jacob0Op(x) ==
    /\ Reading(x)
    /\ \E r \in {jacob0(heap[env[x]], ZeroQ(heap[env[x]]), None)} : Read("jacob0", r.status, x, x)
    /\ UNCHANGED <<ets, heap, env>>

Hessian0Op(x) ==
    /\ Reading(x)
    /\ \E r \in {hessian0(heap[env[x]], ZeroQ(heap[env[x]]), JNone)} :
           Read("hessian0", r.status, x, x)
    /\ UNCHANGED <<ets, heap, env>>

\* z = x.compile(), z a name not bound so far
CompileOp(z, x) ==
    /\ Reading(x)
    /\ env[z] = 0
    /\ LET r == compile_call(heap, env[x], Fresh(Live(env)))
           e1 == [env EXCEPT ![z] = r.result]
       IN  /\ env' = CollectEnv(e1)
           /\ heap' = Collect(r.heap, e1)
    /\ Read("compile", "ok", x, z)
    /\ UNCHANGED ets

NextShared ==
    \/ \E x \in Names : \E f \in HeapFactories : NewOp(x, f)
    \/ \E x, y \in Names : AliasOp(x, y)
    \/ \E x, y, z \in Names : MulOp(z, x, y, FALSE)
    \/ \E x, y \in Names : IMulOp(x, y, FALSE)
    \/ \E x \in Names : NOp(x)
    \/ \E x \in Names : ConfigOp(x)
    \/ \E x \in Names : JointsOp(x)
    \/ \E x \in Names : StrOp(x)
    \/ \E x \in Names : EvalOp(x)
    \/ \E x \in Names : Jacob0Op(x)
    \/ \E x \in Names : Hessian0Op(x)
    \/ \E x, z \in Names : CompileOp(z, x)

SpecShared == Init /\ [][NextShared]_vars

\* C15: a call of eval, compile, jacob0, hessian0, n, config, joints or str
\* leaves every instance with the elements it had: each name bound before
\* the call is bound to the same instance after it, with the same element
\* list; and the instance compile returns is none of the instances there
\* were.  Calls that follow one another on a shared sequence therefore all
\* see the same elements.
C15_ReadOnlyOps ==
    [][ret'.op \in SharedReadOps =>
           LET bound == {m \in Names : env[m] # 0}
           IN  /\ \A m \in bound :
                      /\ env'[m] # 0
                      /\ heap'[env'[m]] = heap[env[m]]
                      /\ \A k \in bound : (env'[m] = env'[k]) = (env[m] = env[k])
               /\ ret'.op = "compile" =>
                      /\ ret'.val.target \notin bound
                      /\ env'[ret'.val.target] # 0
                      /\ \A m \in bound : env'[ret'.val.target] # env'[m]
               /\ ret'.op # "compile" => \A m \in Names \ bound : env'[m] = 0]_vars

\* C15 witness: compile was called, after other calls that only read, on a
\* sequence of two fixed elements that two names are bound to; the result
\* is a third instance of one element and the two names still see two.
C15_Witness ==
    /\ ret.op = "compile"
    /\ Len(heap[env[ret.val.self]]) = 2
    /\ Len(heap[env[ret.val.target]]) = 1
    /\ env[ret.val.target] # env[ret.val.self]
    /\ \E m \in Names \ {ret.val.self, ret.val.target} : env[m] = env[ret.val.self]

\* ======================================================== construction
\* A second specification: the caller makes one elementary transform after
\* another, e = ETS.rx(...), e = ETS(...); ets is the data of e and ret
\* the last call with its arguments.
MaxEta == 2

Units == {"rad", "deg", "grad"}

\* the parameters passed: None, or a number (quarter turns or lengths; a
\* multiple of 90 with unit 'deg')
EtaArgs(unit) ==
    {None} \cup {Num(IF unit = "deg" THEN 90 * k ELSE k) : k \in (-MaxEta)..MaxEta}

\* the matrices passed to the raw-matrix constructor
ConstArgs ==
    {Apply(Func(f), k) : f \in {"trotx", "troty", "trotz", "tx", "ty", "tz"}, k \in 0..MaxEta}

\* the axis_func arguments passed to ETS(...) directly: None, a number, a
\* function, a matrix
AxisFuncArgs == {None, Num(5), Func("trotz"), Func("tx"), eye4}

AxisArgs == {None, <<"R", "z">>, <<"t", "x">>}

\* e = <call>: e is bound to the new instance unless the call raised
Made(op, axis_func_arg, axis_arg, eta, unit, r) ==
    /\ ets' = IF r.status = "ok" THEN r.data ELSE ets
    /\ ret' = Ret(op, r.status,
                  [axis_func |-> axis_func_arg, axis |-> axis_arg, eta |-> eta, unit |-> unit],
                  QNone, "rad", QNone)
    /\ UNCHANGED <<heap, env>>

NewRx(eta, unit) == \E r \in {rx(eta, unit)} : Made("rx", None, None, eta, unit, r)
NewRy(eta, unit) == \E r \in {ry(eta, unit)} : Made("ry", None, None, eta, unit, r)
NewRz(eta, unit) == \E r \in {rz(eta, unit)} : Made("rz", None, None, eta, unit, r)
NewTx(eta) == \E r \in {tx(eta)} : Made("tx", None, None, eta, "rad", r)
NewTy(eta) == \E r \in {ty(eta)} : Made("ty", None, None, eta, "rad", r)
NewTz(eta) == \E r \in {tz(eta)} : Made("tz", None, None, eta, "rad", r)
NewConst(Tm) == \E r \in {_CONST(Tm)} : Made("_CONST", Tm, None, None, "rad", r)
NewETS(f, a, eta, unit) == \E r \in {init(f, a, eta, unit)} : Made("ETS", f, a, eta, unit, r)

NextET ==
    \/ \E unit \in Units : \E eta \in EtaArgs(unit) : NewRx(eta, unit)
    \/ \E unit \in Units : \E eta \in EtaArgs(unit) : NewRy(eta, unit)
    \/ \E unit \in Units : \E eta \in EtaArgs(unit) : NewRz(eta, unit)
    \/ \E eta \in EtaArgs("rad") : NewTx(eta)
    \/ \E eta \in EtaArgs("rad") : NewTy(eta)
    \/ \E eta \in EtaArgs("rad") : NewTz(eta)
    \/ \E Tm \in ConstArgs : NewConst(Tm)
    \/ \E f \in AxisFuncArgs : \E a \in AxisArgs : \E unit \in Units :
           \E eta \in EtaArgs(unit) : NewETS(f, a, eta, unit)

SpecET == Init /\ [][NextET]_vars

RotOps == {"rx", "ry", "rz"}
AxisOps == RotOps \cup {"tx", "ty", "tz"}

\* C13: an element made by an axis factory is a joint exactly when the
\* factory was given no parameter; a joint has no cached transform and no
\* stored parameter; an element that is not a joint has a cached transform
\* (and, made by an axis factory, a stored parameter); a constant made from
\* a matrix is not a joint, has axis 'C', no parameter, no transform
\* function, and the matrix as its cached transform.
C13_ElementInvariant ==
    (ret.op \in AxisOps \cup {"_CONST"} /\ ret.status = "ok") =>
        /\ Len(ets) = 1
        /\ ret.op \in AxisOps => (ets[1].joint <=> IsNone(ret.val.eta))
        /\ ret.op \in AxisOps => (ets[1].joint <=> IsNone(ets[1].eta))
        /\ ets[1].joint => (IsNone(ets[1].T) /\ IsNone(ets[1].eta))
        /\ ~ets[1].joint => IsNdarray(ets[1].T)
        /\ ret.op = "_CONST" =>
               /\ ~ets[1].joint
               /\ ets[1].axis = <<"C">>
               /\ IsNone(ets[1].eta)
               /\ IsNone(ets[1].axis_func)
               /\ ets[1].T = ret.val.axis_func

\* C13 witness: ETS.rx(90, 'deg') made a fixed quarter turn about x, with
\* the parameter stored in radians and the transform cached.
C13_Witness ==
    /\ ret.op = "rx"
    /\ ret.status = "ok"
    /\ ret.val.eta = Num(90)
    /\ ret.val.unit = "deg"
    /\ ~ets[1].joint
    /\ ets[1].eta = Num(1)
    /\ ets[1].T = trotx(1)

\* C14: a call that asks for a joint (a function and no parameter) with a
\* unit other than 'rad', and a call whose axis function is neither a
\* function nor a matrix, raise ValueError and the caller's variable is
\* not bound to a new element.
C14_ConstructionRejected ==
    [][LET a == ret'.val
           jointcall == \/ ret'.op \in RotOps /\ IsNone(a.eta)
                        \/ ret'.op = "ETS" /\ Callable(a.axis_func) /\ IsNone(a.eta)
           badfunc == /\ ret'.op = "ETS"
                      /\ ~Callable(a.axis_func)
                      /\ ~IsNdarray(a.axis_func)
                      /\ ~(IsNone(a.axis_func) /\ IsNone(a.axis) /\ IsNone(a.eta))
       IN  ((jointcall /\ a.unit # "rad") \/ badfunc) =>
               (ret'.status = "ValueError" /\ ets' = ets)]_vars

\* C14 witness: ETS.rz(unit='deg') raised while e was bound to an element
\* made before, which it still is.
C14_Witness ==
    /\ ret.op = "rz"
    /\ IsNone(ret.val.eta)
    /\ ret.val.unit = "deg"
    /\ ret.status = "ValueError"
    /\ Len(ets) = 1
    /\ ets[1].axis = <<"t", "x">>

====
